---- MODULE Spec2Model ----
(***************************************************************************)
(* Transaction core of the cooperative-bank backend: the POST /deposit,    *)
(* POST /withdraw and POST /transfer handlers of routes/transactions.js    *)
(* running concurrently against the Account and Transaction collections,   *)
(* with the account opening and deactivation handlers of routes/accounts.js *)
(* and the user status handler of routes/users.js; the account reads and   *)
(* the account update; the password change with its audit wrapper and the  *)
(* AuditService writes; and the registration handler of routes/auth.js.    *)
(* Every database round trip of a handler is one step; the synchronous     *)
(* code that follows an await belongs to the step of that await.           *)
(* Amounts are whole currency units.                                       *)
(***************************************************************************)
EXTENDS Integers, FiniteSets, Sequences, TLC

(* ------------------------------ bounds --------------------------------- *)
\* total number of requests served in one behaviour
MaxOps == 2
\* number of values of the random suffix of a transactionId (1000 in the code)
RandRange == 2

Procs == {"p1", "p2"}

(* ------------------------------- users ---------------------------------- *)
\* models/User.js: role (member, admin, manager, super_admin) and the required
\* cooperativeBankId
Users ==
  [ u1  |-> [role |-> "member",      cooperativeBankId |-> "b1"],
    u2  |-> [role |-> "member",      cooperativeBankId |-> "b2"],
    adm |-> [role |-> "admin",       cooperativeBankId |-> "b2"],
    mgr |-> [role |-> "manager",     cooperativeBankId |-> "b2"],
    sup |-> [role |-> "super_admin", cooperativeBankId |-> "b1"] ]

UserIds == DOMAIN Users

\* middleware/auth.js authenticateToken: req.cooperativeBankId = user.cooperativeBankId._id
ReqBank(u) == Users[u].cooperativeBankId

(* ------------------------------ accounts -------------------------------- *)
Accounts == {"A", "B"}
\* a well-formed id that names no account
AccountIds == Accounts \cup {"X"}

NullDoc == [nil |-> TRUE]
Unread == [unread |-> TRUE]
IsNull(d) == "nil" \in DOMAIN d
IsUnread(d) == "unread" \in DOMAIN d

(* --------------------------- request inputs ----------------------------- *)
\* req.body.amount passes isNumeric/isFloat both as a JSON number and as a
\* numeric string (express.urlencoded bodies carry strings); no sanitizer
\* converts it.
Amounts == { [val |-> 2, str |-> FALSE], [val |-> 2, str |-> TRUE] }
Refs == {"none", "R1"}

RECURSIVE Pow10Digits(_)
\* 10^(number of decimal digits of n)
Pow10Digits(n) == IF n < 10 THEN 10 ELSE 10 * Pow10Digits(n \div 10)

\* JavaScript `balance + amount`: numeric addition for a number, string
\* concatenation for a string, then cast back to Number by the schema
JsAdd(balance, amt) ==
  IF amt.str THEN balance * Pow10Digits(amt.val) + amt.val
  ELSE balance + amt.val

JsSub_Thrice(balance, amt) == balance - 3 * amt.val

\* JavaScript `balance - amount`: always numeric
JsSub(balance, amt) == balance - amt.val

\* JavaScript `amount > availableBalance`: numeric comparison
JsGt(amt, n) == amt.val > n

VARIABLES
  store,     \* Account collection: committed documents
  ledger,    \* Transaction collection: committed documents
  now,       \* Date.now()
  pc,        \* position of each request handler
  req,       \* request of each handler
  doc,       \* Mongoose documents held by each handler
  sess,      \* storage session / multi-document transaction of each handler
  ops,       \* requests served so far
  last,      \* the request answered most recently: request, response, history
  g,         \* history of each handler's current request (not program state)
  ver,       \* history: number of committed writes of each account
  expected,  \* history: initial balance adjusted by every request answered 201
  taint,     \* history: kinds of irregular outcome seen so far
  userActive,\* User collection: isActive of each user
  opened,    \* Account collection: documents inserted by POST /accounts
  registered,   \* User collection: documents inserted by POST /register
  password,     \* User collection: password of each user
  auditLog,     \* AuditLog collection
  auditCalls    \* calls of AuditService made so far, each with the state of its AuditLog.create

vars == <<store, ledger, now, pc, req, doc, sess, ops, last, g, ver, expected, taint,
          userActive, opened, registered, password, auditLog, auditCalls>>

NoReq == [kind |-> "none", user |-> "u1", fromAccountId |-> "X",
          toAccountId |-> "none", amount |-> [val |-> 0, str |-> FALSE],
          referenceNumber |-> "none"]
NoDocs == [from |-> Unread, to |-> Unread]
NoSess == [started |-> FALSE, writes |-> {}, insert |-> {}, stale |-> {}]
NoHist == [applied |-> {}, preFrom |-> 0, postFrom |-> 0, preTo |-> 0,
           postTo |-> 0, mixed |-> FALSE, readVer |-> 0, newRecs |-> {},
           staged |-> 0]
NoLast == [req |-> NoReq, status |-> 0, message |-> "", data |-> <<>>, g |-> NoHist]

(* ------------------------------ helpers --------------------------------- *)
Active(p) == pc[p] # "idle"
AcctsOf(p) == {req[p].fromAccountId, req[p].toAccountId} \cap Accounts

\* Account.findById
FindById(id) == IF id \in Accounts THEN store[id] ELSE NullDoc

\* `account.userId !== req.user._id && !['admin','manager'].includes(req.user.role)`
AccessDenied(account, user) ==
  /\ account.userId # user
  /\ Users[user].role \notin {"admin", "manager"}

AvailableBalance_Gross(account) == account.balance

\* `account.balance - account.minimumBalance`
AvailableBalance(account) == account.balance - account.minimumBalance

\* a document of the account is write-locked by another open storage transaction
LockedByOther(p, a) == \E q \in Procs \ {p} : \E w \in sess[q].writes : w.id = a

\* unique indexes of the Transaction collection (transactionId; sparse referenceNumber)
DuplicateKey(t, recs) ==
  \E r \in recs :
    \/ r.transactionId = t.transactionId
    \/ (t.referenceNumber # "none" /\ r.referenceNumber = t.referenceNumber)

\* inserts staged by the other open storage transactions
StagedByOthers(p) == UNION { sess[q].insert : q \in Procs \ {p} }

\* transactionSchema.pre('save'): `TXN${Date.now()}${random 000..999}`.
\* The suffixes are interchangeable: a suffix not yet used in this millisecond
\* is represented by the least such one.
UsedSuffixes ==
  { t.transactionId[2] :
      t \in { u \in ledger \cup UNION { sess[q].insert : q \in Procs } :
                u.transactionId[1] = now } }
TransactionIds ==
  { <<now, r>> : r \in { x \in 0 .. (RandRange - 1) :
                           x \in UsedSuffixes \/ \A y \in 0 .. (x - 1) : y \in UsedSuffixes } }

NewTransaction_Pending(p, id, type, toAccount, balanceAfter) ==
  [ transactionId     |-> id,
    cooperativeBankId |-> ReqBank(req[p].user),
    fromAccount       |-> req[p].fromAccountId,
    toAccount         |-> toAccount,
    amount            |-> req[p].amount.val,
    transactionType   |-> type,
    balanceAfter      |-> balanceAfter,
    status            |-> "pending",
    referenceNumber   |-> req[p].referenceNumber,
    processedBy       |-> req[p].user ]

\* new Transaction({...}) with the schema default status
NewTransaction(p, id, type, toAccount, balanceAfter) ==
  [ transactionId     |-> id,
    cooperativeBankId |-> ReqBank(req[p].user),
    fromAccount       |-> req[p].fromAccountId,
    toAccount         |-> toAccount,
    amount            |-> req[p].amount.val,
    transactionType   |-> type,
    balanceAfter      |-> balanceAfter,
    status            |-> "completed",
    referenceNumber   |-> req[p].referenceNumber,
    processedBy       |-> req[p].user ]

\* history: handler p acts on the accounts S; every handler in flight on one of
\* them, and p itself if there is one, has had another request interleaved
Touch(p, S, gp) ==
  [ q \in Procs |->
      IF q = p
      THEN [gp EXCEPT !.mixed = @ \/ \E r \in Procs \ {p} :
                                        Active(r) /\ AcctsOf(r) \cap S # {}]
      ELSE [g[q] EXCEPT !.mixed = @ \/ (Active(q) /\ AcctsOf(q) \cap S # {})] ]

\* a committed write of the accounts S by p: the open storage transactions of
\* the others have S changed under their snapshot
Staled(p, S, sp) ==
  [ q \in Procs |->
      IF q = p THEN sp
      ELSE IF sess[q].started THEN [sess[q] EXCEPT !.stale = @ \cup S]
      ELSE sess[q] ]

Bump(S) == [a \in Accounts |-> IF a \in S THEN ver[a] + 1 ELSE ver[a]]

\* the handler answers (res.status(...).json(...), or the error middleware of
\* server.js does) and its request ends; G is the history up to this step
RespondData(p, status, message, data, G) ==
  /\ pc' = [pc EXCEPT ![p] = "idle"]
  /\ last' = [req |-> req[p], status |-> status, message |-> message,
              data |-> data, g |-> G[p]]
  /\ req' = [req EXCEPT ![p] = NoReq]
  /\ doc' = [doc EXCEPT ![p] = NoDocs]
  /\ g' = [G EXCEPT ![p] = NoHist]

Respond(p, status, message, G) == RespondData(p, status, message, <<>>, G)

\* `Insufficient balance. Available: ${availableBalance}`
RespondInsufficient(p, account, G) ==
  RespondData(p, 400, "Insufficient balance", <<AvailableBalance(account)>>, G)

\* the handler goes on to its next await
Goto(p, next, D, G) ==
  /\ pc' = [pc EXCEPT ![p] = next]
  /\ doc' = [doc EXCEPT ![p] = D]
  /\ g' = G
  /\ UNCHANGED <<last, req>>

(* ------------------------------ initial state --------------------------- *)
\* B was opened either by u1 (a second account in bank b1) or by u2 (bank b2):
\* routes/accounts.js creates an account with userId = req.user._id and
\* cooperativeBankId = req.cooperativeBankId
\* new Account({...}) of routes/accounts.js with its accountNumber; A is the
\* savings account number 1, B the current account number 2
NewAccount(owner, accountType, accountNumber, balance, minimumBalance) ==
  [ userId |-> owner, cooperativeBankId |-> Users[owner].cooperativeBankId,
    accountType |-> accountType, accountNumber |-> accountNumber,
    balance |-> balance, minimumBalance |-> minimumBalance,
    isActive |-> TRUE, lastTransactionDate |-> 0, nomineeDetails |-> "none" ]

InitWith(OwnersB) ==
  /\ \E ownerB \in OwnersB :
       store = [a \in Accounts |->
                  IF a = "A" THEN NewAccount("u1", "savings", 1, 5, 2)
                  ELSE NewAccount(ownerB, "current", 2, 5, 0)]
  /\ ledger = {}
  /\ now = 0
  /\ pc = [p \in Procs |-> "idle"]
  /\ req = [p \in Procs |-> NoReq]
  /\ doc = [p \in Procs |-> NoDocs]
  /\ sess = [p \in Procs |-> NoSess]
  /\ ops = 0
  /\ last = NoLast
  /\ g = [p \in Procs |-> NoHist]
  /\ ver = [a \in Accounts |-> 0]
  /\ expected = [a \in Accounts |-> store[a].balance]
  /\ taint = {}
  /\ userActive = [u \in UserIds |-> TRUE]
  /\ opened = {}
  /\ registered = {}
  /\ password = [u \in UserIds |-> "old"]
  /\ auditLog = {}
  /\ auditCalls = {}

\* a request arrives and has passed authenticateToken (the user is active) and
\* the express-validator chain; requests arrive at different milliseconds, the
\* steps of requests in flight together may fall into the same one
Begin(p, r, first) ==
  /\ pc[p] = "idle"
  /\ userActive[r.user]
  /\ ops < MaxOps
  /\ ops' = ops + 1
  /\ now' = now + 1
  /\ req' = [req EXCEPT ![p] = r]
  /\ pc' = [pc EXCEPT ![p] = first]
  /\ taint' = taint \cup (IF r.amount.str THEN {"string"} ELSE {})
  /\ UNCHANGED <<store, ledger, doc, sess, last, g, ver, expected, userActive, opened,
               registered, auditLog, auditCalls, password>>

\* account.save() outside any session: $set of the modified paths balance and
\* lastTransactionDate, after the schema validation (balance min 0); waits
\* while a storage transaction holds the document
AccountSave(p, next) ==
  /\ LET a == req[p].fromAccountId
         d == doc[p].from
     IN /\ ~LockedByOther(p, a)
        /\ \/ /\ d.balance >= 0
              /\ store' = [store EXCEPT ![a].balance = d.balance,
                                        ![a].lastTransactionDate = d.lastTransactionDate]
              /\ ver' = Bump({a})
              /\ sess' = Staled(p, {a}, sess[p])
              /\ Goto(p, next, doc[p],
                      Touch(p, {a}, [g[p] EXCEPT !.applied = @ \cup {"from"},
                                                 !.preFrom = store[a].balance,
                                                 !.postFrom = d.balance]))
              /\ taint' = taint
           \/ /\ Respond(p, 500, "account save failed", g)
              /\ taint' = taint \cup {"fail"}
              /\ UNCHANGED <<store, ver, sess>>
  /\ UNCHANGED <<ledger, now, ops, expected, userActive, opened,
               registered, auditLog, auditCalls, password>>

\* transaction.save() outside any session: the pre-save hook sets transactionId,
\* the unique indexes reject a duplicate (E11000, answered 400 by server.js)
TransactionSave(p, type, message, delta) ==
  /\ \/ \E id \in TransactionIds :
          LET t == NewTransaction(p, id, type, "none", doc[p].from.balance)
              a == req[p].fromAccountId
          IN /\ ~DuplicateKey(t, StagedByOthers(p))
             /\ IF DuplicateKey(t, ledger)
                THEN /\ Respond(p, 400, "already exists", g)
                     /\ taint' = taint \cup {"fail"}
                     /\ UNCHANGED <<ledger, expected>>
                ELSE /\ ledger' = ledger \cup {t}
                     /\ Respond(p, 201, message,
                                [g EXCEPT ![p].applied = @ \cup {"txn"},
                                          ![p].newRecs = @ \cup {t}])
                     /\ expected' = [expected EXCEPT ![a] = @ + delta]
                     /\ taint' = taint
     \/ /\ Respond(p, 500, "transaction save failed", g)
        /\ taint' = taint \cup {"fail"}
        /\ UNCHANGED <<ledger, expected>>
  /\ UNCHANGED <<store, now, sess, ops, ver, userActive, opened,
               registered, auditLog, auditCalls, password>>

\* history of a read of the (source) account: the version read
Read(p, which, a) ==
  IF which = "from" /\ a \in Accounts THEN [g[p] EXCEPT !.readVer = ver[a]] ELSE g[p]

(* ------------------------------- deposit -------------------------------- *)
DepositStart(p, I) ==
  \E u \in I.users, a \in I.accounts, amt \in I.amounts, r \in I.refs :
    Begin(p, [kind |-> "deposit", user |-> u, fromAccountId |-> a,
              toAccountId |-> "none", amount |-> amt, referenceNumber |-> r],
          "dep_find")

\* lines 35-53: findById, the three checks, the new balance
DepositFind(p) ==
  /\ pc[p] = "dep_find"
  /\ LET a == req[p].fromAccountId
         account == FindById(a)
         G == Touch(p, {a} \cap Accounts, Read(p, "from", a))
     IN IF IsNull(account) THEN Respond(p, 404, "Account not found", G)
        ELSE IF AccessDenied(account, req[p].user) THEN Respond(p, 403, "Access denied", G)
        ELSE IF ~account.isActive THEN Respond(p, 400, "Account is deactivated", G)
        ELSE Goto(p, "dep_save",
                  [doc[p] EXCEPT !.from =
                     [account EXCEPT !.balance = JsAdd(account.balance, req[p].amount),
                                     !.lastTransactionDate = now]],
                  G)
  /\ UNCHANGED <<store, ledger, now, sess, ops, ver, expected, taint, userActive, opened,
               registered, auditLog, auditCalls, password>>

\* line 54
DepositSave(p) ==
  /\ pc[p] = "dep_save"
  /\ AccountSave(p, "dep_insert")

\* lines 57-73
DepositInsert(p) ==
  /\ pc[p] = "dep_insert"
  /\ TransactionSave(p, "deposit", "Deposit successful", req[p].amount.val)

(* ------------------------------ withdrawal ------------------------------ *)
WithdrawStart(p, I) ==
  \E u \in I.users, a \in I.accounts, amt \in I.amounts :
    Begin(p, [kind |-> "withdrawal", user |-> u, fromAccountId |-> a,
              toAccountId |-> "none", amount |-> amt, referenceNumber |-> "none"],
          "wd_find")

\* lines 96-120 with lastTransactionDate written before the checks
WithdrawFind_DateFirst(p) ==
  /\ pc[p] = "wd_find"
  /\ LET a == req[p].fromAccountId
         account == FindById(a)
         G == Touch(p, {a} \cap Accounts, Read(p, "from", a))
     IN IF IsNull(account) THEN Respond(p, 404, "Account not found", G) /\ store' = store
        ELSE /\ store' = [store EXCEPT ![a].lastTransactionDate = now]
             /\ IF AccessDenied(account, req[p].user)
                  THEN Respond(p, 403, "Access denied", G)
                ELSE IF ~account.isActive
                  THEN Respond(p, 400, "Account is deactivated", G)
                ELSE IF JsGt(req[p].amount, AvailableBalance(account))
                  THEN RespondInsufficient(p, account, G)
                ELSE Goto(p, "wd_save",
                          [doc[p] EXCEPT !.from =
                             [account EXCEPT !.balance = JsSub(account.balance, req[p].amount),
                                             !.lastTransactionDate = now]],
                          G)
  /\ UNCHANGED <<ledger, now, sess, ops, ver, expected, taint, userActive, opened,
               registered, auditLog, auditCalls, password>>

\* lines 96-120
WithdrawFind(p) ==
  /\ pc[p] = "wd_find"
  /\ LET a == req[p].fromAccountId
         account == FindById(a)
         G == Touch(p, {a} \cap Accounts, Read(p, "from", a))
     IN IF IsNull(account) THEN Respond(p, 404, "Account not found", G)
        ELSE IF AccessDenied(account, req[p].user) THEN Respond(p, 403, "Access denied", G)
        ELSE IF ~account.isActive THEN Respond(p, 400, "Account is deactivated", G)
        ELSE IF JsGt(req[p].amount, AvailableBalance(account))
          THEN RespondInsufficient(p, account, G)
        ELSE Goto(p, "wd_save",
                  [doc[p] EXCEPT !.from =
                     [account EXCEPT !.balance = JsSub(account.balance, req[p].amount),
                                     !.lastTransactionDate = now]],
                  G)
  /\ UNCHANGED <<store, ledger, now, sess, ops, ver, expected, taint, userActive, opened,
               registered, auditLog, auditCalls, password>>

\* line 121
WithdrawSave(p) ==
  /\ pc[p] = "wd_save"
  /\ AccountSave(p, "wd_insert")

\* lines 124-139
WithdrawInsert(p) ==
  /\ pc[p] = "wd_insert"
  /\ TransactionSave(p, "withdrawal", "Withdrawal successful", 0 - req[p].amount.val)

(* ------------------------------- transfer ------------------------------- *)
TransferStart(p, I) ==
  \E u \in I.users, f \in I.accounts, t \in I.accounts, amt \in I.amounts :
    Begin(p, [kind |-> "transfer", user |-> u, fromAccountId |-> f,
              toAccountId |-> t, amount |-> amt, referenceNumber |-> "none"],
          "tr_same")

\* lines 164-166
TransferSame(p) ==
  /\ pc[p] = "tr_same"
  /\ IF req[p].fromAccountId = req[p].toAccountId
     THEN Respond(p, 400, "Cannot transfer to the same account", g)
     ELSE Goto(p, "tr_find", doc[p], g)
  /\ UNCHANGED <<store, ledger, now, sess, ops, ver, expected, taint, userActive, opened,
               registered, auditLog, auditCalls, password>>

\* lines 174-204, run once both findById of the Promise.all have answered;
\* startSession/startTransaction are local to the driver
TransferChecks(p, from, to, G) ==
  IF IsNull(from) THEN Respond(p, 404, "From account not found", G)
  ELSE IF IsNull(to) THEN Respond(p, 404, "To account not found", G)
  ELSE IF AccessDenied(from, req[p].user)
    THEN Respond(p, 403, "Access denied to from account", G)
  ELSE IF ~from.isActive \/ ~to.isActive
    THEN Respond(p, 400, "One or both accounts are deactivated", G)
  ELSE IF JsGt(req[p].amount, AvailableBalance(from))
    THEN RespondInsufficient(p, from, G)
  ELSE Goto(p, "tr_saveFrom",
            [from |-> [from EXCEPT !.balance = JsSub(from.balance, req[p].amount),
                                   !.lastTransactionDate = now],
             to |-> to],
            G)

\* lines 169-172: the two reads of the Promise.all are answered in either order
TransferFind(p, which) ==
  /\ pc[p] = "tr_find"
  /\ IsUnread(doc[p][which])
  /\ LET a == IF which = "from" THEN req[p].fromAccountId ELSE req[p].toAccountId
         account == FindById(a)
         other == IF which = "from" THEN doc[p].to ELSE doc[p].from
         G == Touch(p, {a} \cap Accounts, Read(p, which, a))
     IN IF IsUnread(other) THEN Goto(p, "tr_find", [doc[p] EXCEPT ![which] = account], G)
        ELSE IF which = "from" THEN TransferChecks(p, account, other, G)
        ELSE TransferChecks(p, other, account, G)
  /\ UNCHANGED <<store, ledger, now, sess, ops, ver, expected, taint, userActive, opened,
               registered, auditLog, auditCalls, password>>

TransferFindFrom(p) == TransferFind(p, "from")
TransferFindTo(p) == TransferFind(p, "to")

\* catch: abortTransaction, rethrow (answered 500 by server.js); finally: endSession
Abort(p) ==
  /\ sess' = [sess EXCEPT ![p] = NoSess]
  /\ Respond(p, 500, "transfer failed",
             [g EXCEPT ![p].staged = Cardinality(sess[p].writes)
                                       + Cardinality(sess[p].insert)])
  /\ taint' = taint \cup {"fail"}

\* account.save({ session }): the write is staged in the storage transaction,
\* whose snapshot starts with its first operation; it conflicts with a write
\* staged by another transaction and with a write committed since the snapshot
SessionAccountSave(p, which, next) ==
  /\ LET a == IF which = "from" THEN req[p].fromAccountId ELSE req[p].toAccountId
         d == doc[p][which]
     IN \/ /\ ~LockedByOther(p, a)
           /\ a \notin sess[p].stale
           /\ d.balance >= 0
           /\ sess' = [sess EXCEPT ![p].started = TRUE,
                                   ![p].writes = @ \cup
                                     {[id |-> a, which |-> which, balance |-> d.balance,
                                       lastTransactionDate |-> d.lastTransactionDate]}]
           /\ Goto(p, next,
                   IF which = "from"
                   THEN [doc[p] EXCEPT !.to =
                           [@ EXCEPT !.balance = JsAdd(@, req[p].amount),
                                     !.lastTransactionDate = now]]
                   ELSE doc[p],
                   Touch(p, {a}, g[p]))
           /\ taint' = taint
        \/ Abort(p)
  /\ UNCHANGED <<store, ledger, now, ops, ver, expected, userActive, opened,
               registered, auditLog, auditCalls, password>>

\* lines 203-205 (and 208-209, which follow the await)
TransferSaveFrom(p) ==
  /\ pc[p] = "tr_saveFrom"
  /\ SessionAccountSave(p, "from", "tr_saveTo")

\* line 210 written as `await toAccount.save()`: the write leaves the session
TransferSaveTo_NoSession(p) ==
  /\ pc[p] = "tr_saveTo"
  /\ LET a == req[p].toAccountId
         d == doc[p].to
     IN /\ ~LockedByOther(p, a)
        /\ store' = [store EXCEPT ![a].balance = d.balance,
                                  ![a].lastTransactionDate = d.lastTransactionDate]
        /\ ver' = Bump({a})
        /\ sess' = Staled(p, {a}, sess[p])
        /\ Goto(p, "tr_insert", doc[p],
                Touch(p, {a}, [g[p] EXCEPT !.applied = @ \cup {"to"},
                                           !.preTo = store[a].balance,
                                           !.postTo = d.balance]))
  /\ UNCHANGED <<ledger, now, ops, expected, taint, userActive, opened,
               registered, auditLog, auditCalls, password>>

\* line 210
TransferSaveTo(p) ==
  /\ pc[p] = "tr_saveTo"
  /\ SessionAccountSave(p, "to", "tr_insert")

\* lines 213-224: transaction.save({ session })
TransferInsert(p) ==
  /\ pc[p] = "tr_insert"
  /\ \/ \E id \in TransactionIds :
          LET t == NewTransaction(p, id, "transfer", req[p].toAccountId,
                                  doc[p].from.balance)
          IN /\ ~DuplicateKey(t, ledger \cup StagedByOthers(p))
             /\ sess' = [sess EXCEPT ![p].insert = {t}]
             /\ Goto(p, "tr_commit", doc[p], g)
             /\ taint' = taint
     \/ Abort(p)
  /\ UNCHANGED <<store, ledger, now, ops, ver, expected, userActive, opened,
               registered, auditLog, auditCalls, password>>

\* lines 226-232: session.commitTransaction() applies the staged writes together
TransferCommit(p) ==
  /\ pc[p] = "tr_commit"
  /\ \/ LET f == req[p].fromAccountId
            t == req[p].toAccountId
            W == sess[p].writes
            Staged(a) == CHOOSE w \in W : w.id = a
        IN /\ store' = [a \in Accounts |->
                          IF \E w \in W : w.id = a
                          THEN [store[a] EXCEPT
                                  !.balance = Staged(a).balance,
                                  !.lastTransactionDate = Staged(a).lastTransactionDate]
                          ELSE store[a]]
           /\ ledger' = ledger \cup sess[p].insert
           /\ ver' = Bump({w.id : w \in W})
           /\ sess' = Staled(p, {w.id : w \in W}, NoSess)
           /\ expected' = [expected EXCEPT ![f] = @ - req[p].amount.val,
                                           ![t] = @ + req[p].amount.val]
           /\ Respond(p, 201, "Transfer successful",
                      [g EXCEPT
                         ![p].applied = @ \cup {w.which : w \in W}
                                          \cup (IF sess[p].insert # {} THEN {"txn"} ELSE {}),
                         ![p].newRecs = @ \cup sess[p].insert,
                         ![p].preFrom = store[f].balance,
                         ![p].postFrom = store'[f].balance,
                         ![p].preTo = store[t].balance,
                         ![p].postTo = store'[t].balance])
           /\ taint' = taint
     \/ /\ Abort(p)
        /\ UNCHANGED <<store, ledger, ver, expected>>
  /\ UNCHANGED <<now, ops, userActive, opened,
               registered, auditLog, auditCalls, password>>

(* ------------------------- account deactivation ------------------------- *)
\* the requests of routes/accounts.js and routes/users.js carry, besides the
\* fields of NoReq, the account type, or the target user and the isActive flag
DeactivateStart(p, I) ==
  \E u \in I.users, a \in I.accounts :
    Begin(p, [kind |-> "deactivate", user |-> u, fromAccountId |-> a,
              toAccountId |-> "none", amount |-> NoReq.amount,
              referenceNumber |-> "none"],
          "de_find")

HasFunds_Never(account) == FALSE

\* `account.balance > 0`
HasFunds(account) == account.balance > 0

\* routes/accounts.js lines 195-214: findById, the four checks, isActive = false
DeactivateFind(p) ==
  /\ pc[p] = "de_find"
  /\ LET a == req[p].fromAccountId
         account == FindById(a)
         G == Touch(p, {a} \cap Accounts, Read(p, "from", a))
     IN IF IsNull(account) THEN Respond(p, 404, "Account not found", G)
        ELSE IF AccessDenied(account, req[p].user) THEN Respond(p, 403, "Access denied", G)
        ELSE IF ~account.isActive
          THEN Respond(p, 400, "Account is already deactivated", G)
        ELSE IF HasFunds(account)
          THEN Respond(p, 400, "Cannot deactivate account with remaining balance", G)
        ELSE Goto(p, "de_save", [doc[p] EXCEPT !.from = [account EXCEPT !.isActive = FALSE]], G)
  /\ UNCHANGED <<store, ledger, now, sess, ops, ver, expected, taint, userActive, opened,
               registered, auditLog, auditCalls, password>>

\* routes/accounts.js lines 215-217: account.save() sets the modified path isActive
DeactivateSave(p) ==
  /\ pc[p] = "de_save"
  /\ LET a == req[p].fromAccountId
     IN /\ ~LockedByOther(p, a)
        /\ \/ /\ store' = [store EXCEPT ![a].isActive = FALSE]
              /\ ver' = Bump({a})
              /\ sess' = Staled(p, {a}, sess[p])
              /\ Respond(p, 200, "Account deactivated successfully",
                         Touch(p, {a}, [g[p] EXCEPT !.applied = @ \cup {"active"}]))
              /\ taint' = taint
           \/ /\ Respond(p, 500, "account save failed", g)
              /\ taint' = taint \cup {"fail"}
              /\ UNCHANGED <<store, ver, sess>>
  /\ UNCHANGED <<ledger, now, ops, expected, userActive, opened,
               registered, auditLog, auditCalls, password>>

(* --------------------------- user status update ------------------------- *)
StatusStart(p, I) ==
  \E u \in I.users, target \in I.targets, isActive \in BOOLEAN :
    Begin(p, [kind |-> "status", user |-> u, fromAccountId |-> "none",
              toAccountId |-> "none", amount |-> NoReq.amount,
              referenceNumber |-> "none", userId |-> target, isActive |-> isActive],
          "st_user")

\* the accounts of a user
AccountsOfUser(u) == { a \in Accounts : store[a].userId = u }

\* users routes lines 70-91: authorizeRoles('admin', 'manager'), authorizeBankAccess
\* (the actor belongs to req.cooperativeBankId), User.findOneAndUpdate filtered by
\* the actor's cooperative bank
StatusUser(p) ==
  /\ pc[p] = "st_user"
  /\ LET actor == req[p].user
         target == req[p].userId
     IN IF Users[actor].role \notin {"admin", "manager"}
        THEN Respond(p, 403, "Insufficient permissions", g) /\ userActive' = userActive
        ELSE IF Users[target].cooperativeBankId # ReqBank(actor)
        THEN Respond(p, 404, "User not found", g) /\ userActive' = userActive
        ELSE /\ userActive' = [userActive EXCEPT ![target] = req[p].isActive]
             /\ IF req[p].isActive
                THEN Respond(p, 200, "User activated successfully", g)
                ELSE Goto(p, "st_accounts", doc[p], g)
  /\ UNCHANGED <<store, ledger, now, sess, ops, ver, expected, taint, opened,
               registered, auditLog, auditCalls, password>>

\* users routes lines 93-100: Account.updateMany({ userId }, { isActive: false })
StatusAccounts(p) ==
  /\ pc[p] = "st_accounts"
  /\ LET S == AccountsOfUser(req[p].userId)
     IN /\ \A a \in S : ~LockedByOther(p, a)
        /\ store' = [a \in Accounts |->
                       IF a \in S THEN [store[a] EXCEPT !.isActive = FALSE] ELSE store[a]]
        /\ opened' = { IF o.userId = req[p].userId THEN [o EXCEPT !.isActive = FALSE] ELSE o :
                         o \in opened }
        /\ ver' = Bump(S)
        /\ sess' = Staled(p, S, sess[p])
        /\ Respond(p, 200, "User deactivated successfully",
                   Touch(p, S, [g[p] EXCEPT !.applied = @ \cup {"active"}]))
  /\ UNCHANGED <<ledger, now, ops, expected, taint, userActive,
               registered, auditLog, auditCalls, password>>

(* ---------------------------- account opening --------------------------- *)
CreateStart(p, I) ==
  \E u \in I.users, accountType \in I.types :
    Begin(p, [kind |-> "create", user |-> u, fromAccountId |-> "none",
              toAccountId |-> "none", amount |-> NoReq.amount,
              referenceNumber |-> "none", accountType |-> accountType],
          "cr_find")

\* the documents of the Account collection
AllAccounts == { store[a] : a \in Accounts } \cup opened

\* routes/accounts.js lines 50-71: Account.findOne({userId, accountType, isActive:
\* true}), new Account({...}) with the defaults of minimumBalance
CreateFind(p) ==
  /\ pc[p] = "cr_find"
  /\ LET u == req[p].user
         ty == req[p].accountType
     IN IF \E o \in AllAccounts : o.userId = u /\ o.accountType = ty /\ o.isActive
        THEN Respond(p, 400, "You already have an active account", g)
        ELSE Goto(p, "cr_count",
                  [doc[p] EXCEPT !.from =
                     [ NewAccount(u, ty, 0, 0, IF ty = "savings" THEN 1000 ELSE 0)
                         EXCEPT !.cooperativeBankId = ReqBank(u) ]],
                  g)
  /\ UNCHANGED <<store, ledger, now, sess, ops, ver, expected, taint, userActive, opened,
               registered, auditLog, auditCalls, password>>

\* accountSchema.pre('save'): countDocuments({ cooperativeBankId }) + 1
CreateCount(p) ==
  /\ pc[p] = "cr_count"
  /\ LET count == Cardinality({ o \in AllAccounts :
                                  o.cooperativeBankId = doc[p].from.cooperativeBankId })
     IN Goto(p, "cr_insert", [doc[p] EXCEPT !.from.accountNumber = count + 1], g)
  /\ UNCHANGED <<store, ledger, now, sess, ops, ver, expected, taint, userActive, opened,
               registered, auditLog, auditCalls, password>>

\* routes/accounts.js lines 71-73: the insert, under the unique index on
\* accountNumber (E11000, answered 400 by server.js)
CreateInsert(p) ==
  /\ pc[p] = "cr_insert"
  /\ IF \E o \in AllAccounts : o.accountNumber = doc[p].from.accountNumber
     THEN /\ Respond(p, 400, "already exists", g)
          /\ opened' = opened
     ELSE /\ opened' = opened \cup {doc[p].from}
          /\ Respond(p, 201, "Account created successfully",
                     [g EXCEPT ![p].applied = @ \cup {"account"}])
  /\ UNCHANGED <<store, ledger, now, sess, ops, ver, expected, taint, userActive,
               registered, auditLog, auditCalls, password>>

(* ------------------------------ account reads --------------------------- *)
ReadRequest(kind, u, a) ==
  [kind |-> kind, user |-> u, fromAccountId |-> a, toAccountId |-> "none",
   amount |-> NoReq.amount, referenceNumber |-> "none"]

GetAccountStart(p, I) ==
  \E u \in I.users, a \in I.accounts : Begin(p, ReadRequest("details", u, a), "ga_find")

\* `account.userId.toString() !== req.user._id.toString() &&
\*  !['admin', 'manager', 'super_admin'].includes(req.user.role)`
DetailsDenied(account, user) ==
  /\ account.userId # user
  /\ Users[user].role \notin {"admin", "manager", "super_admin"}

\* `req.user.role !== 'super_admin' &&
\*  account.cooperativeBankId._id.toString() !== req.cooperativeBankId.toString()`
OtherBank(account, user) ==
  /\ Users[user].role # "super_admin"
  /\ account.cooperativeBankId # ReqBank(user)

\* GET /:accountId: findById, the owner-or-staff check, the tenant check
GetAccount(p) ==
  /\ pc[p] = "ga_find"
  /\ LET account == FindById(req[p].fromAccountId)
     IN IF IsNull(account) THEN Respond(p, 404, "Account not found", g)
        ELSE IF DetailsDenied(account, req[p].user) THEN Respond(p, 403, "Access denied", g)
        ELSE IF OtherBank(account, req[p].user)
          THEN Respond(p, 403, "Access denied - account belongs to different cooperative bank", g)
        ELSE RespondData(p, 200, "Account retrieved successfully", <<account>>, g)
  /\ UNCHANGED <<store, ledger, now, sess, ops, ver, expected, taint, userActive, opened,
                 registered, password, auditLog, auditCalls>>

GetBalanceStart(p, I) ==
  \E u \in I.users, a \in I.accounts : Begin(p, ReadRequest("balance", u, a), "gb_find")

\* GET /:accountId/balance: findById, the owner-or-admin/manager check
GetBalance(p) ==
  /\ pc[p] = "gb_find"
  /\ LET account == FindById(req[p].fromAccountId)
     IN IF IsNull(account) THEN Respond(p, 404, "Account not found", g)
        ELSE IF AccessDenied(account, req[p].user) THEN Respond(p, 403, "Access denied", g)
        ELSE RespondData(p, 200, "Balance retrieved successfully",
                         <<account.accountNumber, account.balance, account.accountType>>, g)
  /\ UNCHANGED <<store, ledger, now, sess, ops, ver, expected, taint, userActive, opened,
                 registered, password, auditLog, auditCalls>>

GetHistoryStart(p, I) ==
  \E u \in I.users, a \in I.accounts : Begin(p, ReadRequest("history", u, a), "gh_find")

\* GET /history/:accountId: findById, the owner-or-admin/manager check
GetHistoryFind(p) ==
  /\ pc[p] = "gh_find"
  /\ LET account == FindById(req[p].fromAccountId)
     IN IF IsNull(account) THEN Respond(p, 404, "Account not found", g)
        ELSE IF AccessDenied(account, req[p].user) THEN Respond(p, 403, "Access denied", g)
        ELSE Goto(p, "gh_list", doc[p], g)
  /\ UNCHANGED <<store, ledger, now, sess, ops, ver, expected, taint, userActive, opened,
                 registered, password, auditLog, auditCalls>>

\* the Transaction documents with fromAccount or toAccount equal to accountId
TransactionsOf(a) == { t \in ledger : t.fromAccount = a \/ t.toAccount = a }

\* Transaction.find({ $or: [{ fromAccount }, { toAccount }] }); a page holds them all
GetHistoryList(p) ==
  /\ pc[p] = "gh_list"
  /\ Goto(p, "gh_count",
          [doc[p] EXCEPT !.to = [transactions |-> TransactionsOf(req[p].fromAccountId)]], g)
  /\ UNCHANGED <<store, ledger, now, sess, ops, ver, expected, taint, userActive, opened,
                 registered, password, auditLog, auditCalls>>

\* Transaction.countDocuments of the same filter, then the response
GetHistoryCount(p) ==
  /\ pc[p] = "gh_count"
  /\ RespondData(p, 200, "Transaction history retrieved successfully",
                 <<doc[p].to.transactions,
                   Cardinality(TransactionsOf(req[p].fromAccountId))>>, g)
  /\ UNCHANGED <<store, ledger, now, sess, ops, ver, expected, taint, userActive, opened,
                 registered, password, auditLog, auditCalls>>

(* ------------------------------ account update -------------------------- *)
\* the request body is a record of the keys the client sent
UpdateStart(p, I) ==
  \E u \in I.users, a \in I.accounts, b \in I.bodies :
    Begin(p, [kind |-> "update", user |-> u, fromAccountId |-> a, toAccountId |-> "none",
              amount |-> NoReq.amount, referenceNumber |-> "none", body |-> b],
          "up_find")

AllowedUpdates_AnyKey == {"nomineeDetails", "cooperativeBankId", "userId", "accountNumber"}

\* `const allowedUpdates = ['nomineeDetails']`
AllowedUpdates == {"nomineeDetails"}

\* the keys of req.body that are allowed, with their values
Updates(b) == [k \in DOMAIN b \cap AllowedUpdates |-> b[k]]

\* PUT /:accountId: findById and the owner-or-admin/manager check
UpdateFind(p) ==
  /\ pc[p] = "up_find"
  /\ LET account == FindById(req[p].fromAccountId)
     IN IF IsNull(account) THEN Respond(p, 404, "Account not found", g)
        ELSE IF AccessDenied(account, req[p].user) THEN Respond(p, 403, "Access denied", g)
        ELSE Goto(p, "up_save", doc[p], g)
  /\ UNCHANGED <<store, ledger, now, sess, ops, ver, expected, taint, userActive, opened,
                 registered, password, auditLog, auditCalls>>

\* Account.findByIdAndUpdate(accountId, updates, { new: true, runValidators: true })
UpdateSave(p) ==
  /\ pc[p] = "up_save"
  /\ LET a == req[p].fromAccountId
         updates == Updates(req[p].body)
         updated == [f \in DOMAIN store[a] |->
                       IF f \in DOMAIN updates THEN updates[f] ELSE store[a][f]]
     IN /\ ~LockedByOther(p, a)
        /\ store' = [store EXCEPT ![a] = updated]
        /\ ver' = IF updated = store[a] THEN ver ELSE Bump({a})
        /\ sess' = IF updated = store[a] THEN sess ELSE Staled(p, {a}, sess[p])
        /\ RespondData(p, 200, "Account updated successfully", <<updated>>, g)
  /\ UNCHANGED <<ledger, now, ops, expected, taint, userActive, opened,
                 registered, password, auditLog, auditCalls>>

(* ------------------------ password change and audit --------------------- *)
PasswordStart(p, I) ==
  \E u \in I.users, cur \in I.passwords, new \in I.passwords :
    Begin(p, [kind |-> "password", user |-> u, fromAccountId |-> "none",
              toAccountId |-> "none", amount |-> NoReq.amount, referenceNumber |-> "none",
              currentPassword |-> cur, newPassword |-> new],
          "pw_find")

\* the wrapper logAuthEvent(action) puts around res.send: when req.user is set
\* and the status is below 400 it calls AuditService.logAuthEvent without
\* awaiting it, then sends the response; the call has reached AuditLog.create
AuditCallsAfter(p, action, status) ==
  IF status < 400
  THEN auditCalls \cup
         { [ userId |-> req[p].user, cooperativeBankId |-> ReqBank(req[p].user),
             action |-> action, status |-> "SUCCESS", timestamp |-> now,
             create |-> "pending" ] }
  ELSE auditCalls

\* change-password lines 354-361: findById and comparePassword
PasswordFind(p) ==
  /\ pc[p] = "pw_find"
  /\ IF req[p].currentPassword # password[req[p].user]
     THEN /\ Respond(p, 400, "Current password is incorrect", g)
          /\ auditCalls' = AuditCallsAfter(p, "PASSWORD_CHANGE", 400)
     ELSE /\ Goto(p, "pw_save", doc[p], g)
          /\ auditCalls' = auditCalls
  /\ UNCHANGED <<store, ledger, now, sess, ops, ver, expected, taint, userActive, opened,
                 registered, password, auditLog>>

\* change-password lines 364-367: user.save() and the response, or the error
\* middleware when the save fails
PasswordSave(p) ==
  /\ pc[p] = "pw_save"
  /\ \/ /\ password' = [password EXCEPT ![req[p].user] = req[p].newPassword]
        /\ Respond(p, 200, "Password changed successfully", g)
        /\ auditCalls' = AuditCallsAfter(p, "PASSWORD_CHANGE", 200)
     \/ /\ Respond(p, 500, "user save failed", g)
        /\ auditCalls' = AuditCallsAfter(p, "PASSWORD_CHANGE", 500)
        /\ password' = password
  /\ UNCHANGED <<store, ledger, now, sess, ops, ver, expected, taint, userActive, opened,
                 registered, auditLog>>

\* the state of the call c becomes s
Settle(c, s) == (auditCalls \ {c}) \cup {[c EXCEPT !.create = s]}

\* the document AuditLog.create inserts for the call c
AuditDocument(c) == [k \in DOMAIN c \ {"create"} |-> c[k]]

\* AuditLog.create(auditData) succeeds
AuditCreate ==
  \E c \in auditCalls :
    /\ c.create = "pending"
    /\ auditLog' = auditLog \cup {AuditDocument(c)}
    /\ auditCalls' = Settle(c, "created")
    /\ UNCHANGED <<store, ledger, now, pc, req, doc, sess, ops, last, g, ver, expected,
                   taint, userActive, opened, registered, password>>

AuditCreateFails_Propagates ==
  \E c \in auditCalls :
    /\ c.create = "pending"
    /\ auditCalls' = Settle(c, "failed")
    /\ last' = [last EXCEPT !.status = 500, !.message = "audit failed"]
    /\ UNCHANGED <<store, ledger, now, pc, req, doc, sess, ops, g, ver, expected,
                   taint, userActive, opened, registered, password, auditLog>>

\* AuditLog.create(auditData) throws or is rejected: the catch of the
\* AuditService method logs to the console and returns
AuditCreateFails ==
  \E c \in auditCalls :
    /\ c.create = "pending"
    /\ auditCalls' = Settle(c, "failed")
    /\ UNCHANGED <<store, ledger, now, pc, req, doc, sess, ops, last, g, ver, expected,
                   taint, userActive, opened, registered, password, auditLog>>

(* ------------------------------ registration ---------------------------- *)
\* the cooperative banks that exist and are active
Banks == {"b1", "b2"}

\* express-validator normalizeEmail() and the schema option lowercase
NormalizeEmail(e) == IF e = "E1" THEN "e1" ELSE e

\* POST /register is not behind authenticateToken: req.user is not set; the
\* validation chain has normalised the email
RegisterStart(p, I) ==
  \E e \in I.emails, ph \in I.phones, aa \in I.aadhars, pn \in I.pans, b \in I.banks :
    /\ pc[p] = "idle"
    /\ ops < MaxOps
    /\ ops' = ops + 1
    /\ now' = now + 1
    /\ req' = [req EXCEPT ![p] =
                 [kind |-> "register", user |-> "none", fromAccountId |-> "none",
                  toAccountId |-> "none", amount |-> NoReq.amount,
                  referenceNumber |-> "none", email |-> NormalizeEmail(e), phone |-> ph,
                  aadharNumber |-> aa, panNumber |-> pn, cooperativeBankId |-> b]]
    /\ pc' = [pc EXCEPT ![p] = "rg_bank"]
    /\ UNCHANGED <<store, ledger, doc, sess, last, g, ver, expected, taint, userActive,
                   opened, registered, password, auditLog, auditCalls>>

\* lines 112-115: CooperativeBank.findById
RegisterBank(p) ==
  /\ pc[p] = "rg_bank"
  /\ IF req[p].cooperativeBankId \notin Banks
     THEN Respond(p, 400, "Invalid or inactive cooperative bank", g)
     ELSE Goto(p, "rg_find", doc[p], g)
  /\ UNCHANGED <<store, ledger, now, sess, ops, ver, expected, taint, userActive, opened,
                 registered, password, auditLog, auditCalls>>

\* the filter { $or: [{ email }, { phone }, { aadharNumber }, { panNumber }] }
SameIdentity(u, r) ==
  \/ u.email = r.email
  \/ u.phone = r.phone
  \/ u.aadharNumber = r.aadharNumber
  \/ u.panNumber = r.panNumber

\* lines 118-129: User.findOne, new User({...})
RegisterFind(p) ==
  /\ pc[p] = "rg_find"
  /\ IF \E u \in registered : SameIdentity(u, req[p])
     THEN Respond(p, 400, "User already exists with this email, phone, Aadhar, or PAN number", g)
     ELSE Goto(p, "rg_save", doc[p], g)
  /\ UNCHANGED <<store, ledger, now, sess, ops, ver, expected, taint, userActive, opened,
                 registered, password, auditLog, auditCalls>>

UniqueFields_None == {}

\* the fields of userSchema with `unique: true`
UniqueFields == {"email", "phone", "aadharNumber", "panNumber"}

\* the unique index that rejects the insert of r, if any: the E11000 error
\* names one field
IndexConflicts(r) == { f \in UniqueFields : \E u \in registered : u[f] = r[f] }

\* `${field} already exists`
IndexMessage(f) ==
  CASE f = "email" -> "email already exists"
    [] f = "phone" -> "phone already exists"
    [] f = "aadharNumber" -> "aadharNumber already exists"
    [] OTHER -> "panNumber already exists"

\* lines 147-169: user.save(); E11000 is answered 400 by the error middleware of
\* server.js; the welcome email is sent in a try/catch and the token is signed
RegisterSave(p) ==
  /\ pc[p] = "rg_save"
  /\ IF IndexConflicts(req[p]) # {}
     THEN /\ \E f \in IndexConflicts(req[p]) : Respond(p, 400, IndexMessage(f), g)
          /\ registered' = registered
     ELSE /\ registered' = registered \cup
               { [ id |-> Cardinality(registered) + 1, email |-> req[p].email,
                   phone |-> req[p].phone, aadharNumber |-> req[p].aadharNumber,
                   panNumber |-> req[p].panNumber,
                   cooperativeBankId |-> req[p].cooperativeBankId, role |-> "member" ] }
          /\ Respond(p, 201, "User registered successfully", g)
  /\ UNCHANGED <<store, ledger, now, sess, ops, ver, expected, taint, userActive, opened,
                 password, auditLog, auditCalls>>

(* --------------------------- specifications ----------------------------- *)
\* requests of the account owner u1, numbers only, handled concurrently
OwnerInputs ==
  [ users |-> {"u1"}, accounts |-> Accounts,
    amounts |-> { a \in Amounts : ~a.str }, refs |-> {"none"} ]

\* requests of every actor, handled one at a time
ActorInputs ==
  [ users |-> UserIds, accounts |-> Accounts,
    amounts |-> { a \in Amounts : ~a.str }, refs |-> {"none"} ]

\* requests of every shape of the owner u1, handled one at a time
ShapeInputs ==
  [ users |-> {"u1"}, accounts |-> AccountIds, amounts |-> Amounts, refs |-> Refs ]

Handler(p, I) ==
  \/ DepositStart(p, I) \/ DepositFind(p) \/ DepositSave(p) \/ DepositInsert(p)
  \/ WithdrawStart(p, I) \/ WithdrawFind(p) \/ WithdrawSave(p) \/ WithdrawInsert(p)
  \/ TransferStart(p, I) \/ TransferSame(p) \/ TransferFindFrom(p) \/ TransferFindTo(p)
  \/ TransferSaveFrom(p) \/ TransferSaveTo(p) \/ TransferInsert(p) \/ TransferCommit(p)

Init == InitWith({"u1"})
Next == \E p \in Procs : Handler(p, OwnerInputs)
Spec == Init /\ [][Next]_vars

InitAccess == InitWith({"u1", "u2"})
NextAccess == Handler("p1", ActorInputs)
SpecAccess == InitAccess /\ [][NextAccess]_vars

InitShape == InitWith({"u1"})
NextShape == Handler("p1", ShapeInputs)
SpecShape == InitShape /\ [][NextShape]_vars

\* requests of the account lifecycle and of the transaction core, one at a time
LifeInputs ==
  [ users |-> {"u1", "u2", "adm"}, accounts |-> AccountIds,
    amounts |-> { [val |-> 5, str |-> FALSE] }, refs |-> {"none"},
    targets |-> {"u1", "u2"} ]

Lifecycle(p, I) ==
  \/ DeactivateStart(p, I) \/ DeactivateFind(p) \/ DeactivateSave(p)
  \/ StatusStart(p, I) \/ StatusUser(p) \/ StatusAccounts(p)

InitLife == InitWith({"u2"})
NextLife == Handler("p1", LifeInputs) \/ Lifecycle("p1", LifeInputs)
SpecLife == InitLife /\ [][NextLife]_vars

\* account-opening requests, handled concurrently
OpenInputs == [ users |-> {"u1", "u2"}, types |-> {"savings", "fixed_deposit"} ]

Opening(p, I) ==
  \/ CreateStart(p, I) \/ CreateFind(p) \/ CreateCount(p) \/ CreateInsert(p)

InitOpen == InitWith({"u1"})
NextOpen == \E p \in Procs : Opening(p, OpenInputs)
SpecOpen == InitOpen /\ [][NextOpen]_vars

\* reads by every actor of every account, with deposits between them
ReadInputs == [ users |-> UserIds, accounts |-> AccountIds ]

Reading(p, I) ==
  \/ GetAccountStart(p, I) \/ GetAccount(p)
  \/ GetBalanceStart(p, I) \/ GetBalance(p)
  \/ GetHistoryStart(p, I) \/ GetHistoryFind(p) \/ GetHistoryList(p) \/ GetHistoryCount(p)

Depositing(p, I) ==
  DepositStart(p, I) \/ DepositFind(p) \/ DepositSave(p) \/ DepositInsert(p)

InitRead == InitWith({"u2"})
NextRead == Reading("p1", ReadInputs) \/ Depositing("p1", OwnerInputs)
SpecRead == InitRead /\ [][NextRead]_vars

\* every operation on an account, one at a time: B is of u2 in bank b2, whose
\* admin is adm
FrameInputs ==
  [ users |-> {"u2", "adm"}, accounts |-> Accounts,
    amounts |-> { [val |-> 5, str |-> FALSE] }, refs |-> {"none"}, targets |-> {"u2"},
    bodies |-> { [nomineeDetails |-> "N1"],
                 [nomineeDetails |-> "N1", cooperativeBankId |-> "b1", userId |-> "u1",
                  accountNumber |-> 9] } ]

Updating(p, I) == UpdateStart(p, I) \/ UpdateFind(p) \/ UpdateSave(p)

InitFrame == InitWith({"u2"})
NextFrame ==
  Handler("p1", FrameInputs) \/ Lifecycle("p1", FrameInputs) \/ Updating("p1", FrameInputs)
SpecFrame == InitFrame /\ [][NextFrame]_vars

\* deposits into B and status changes of its owner u2, handled concurrently
RaceInputs ==
  [ users |-> {"u2", "adm"}, accounts |-> {"B"},
    amounts |-> { a \in Amounts : ~a.str }, refs |-> {"none"}, targets |-> {"u2"} ]

StatusChanging(p, I) == StatusStart(p, I) \/ StatusUser(p) \/ StatusAccounts(p)

InitRace == InitWith({"u2"})
NextRace == \E p \in Procs : Depositing(p, RaceInputs) \/ StatusChanging(p, RaceInputs)
SpecRace == InitRace /\ [][NextRace]_vars

\* the transaction core and the password change of u1, with the audit writes
\* settling in the background
AuditInputs == [ users |-> {"u1"}, passwords |-> {"old", "new"} ]

ChangingPassword(p, I) == PasswordStart(p, I) \/ PasswordFind(p) \/ PasswordSave(p)

InitAudit == InitWith({"u1"})
NextAudit ==
  \/ Handler("p1", OwnerInputs)
  \/ ChangingPassword("p1", AuditInputs)
  \/ AuditCreate
  \/ AuditCreateFails
SpecAudit == InitAudit /\ [][NextAudit]_vars

\* registration requests, handled concurrently
RegisterInputs ==
  [ emails |-> {"e1", "E1"}, phones |-> {1, 2}, aadhars |-> {1, 2}, pans |-> {1, 2},
    banks |-> {"b1", "b9"} ]

Registering(p, I) ==
  RegisterStart(p, I) \/ RegisterBank(p) \/ RegisterFind(p) \/ RegisterSave(p)

InitRegister == InitWith({"u1"})
NextRegister == \E p \in Procs : Registering(p, RegisterInputs)
SpecRegister == InitRegister /\ [][NextRegister]_vars

(* -------------------------------- claims -------------------------------- *)
Quiet == \A p \in Procs : pc[p] = "idle"
Answered(kinds) == last.status # 0 /\ last.req.kind \in kinds
Succeeded(kinds) == last.status = 201 /\ last.req.kind \in kinds
AllApplied == {"from", "to", "txn"}

\* C1: once every request has finished, each balance is the initial balance
\* plus the successful deposits and incoming transfers minus the successful
\* withdrawals and outgoing transfers (stated for runs in which every amount
\* is a number and no request failed after its validation).
C1_Serialized ==
  (Quiet /\ taint = {}) => \A a \in Accounts : store[a].balance = expected[a]

\* C2: withdrawals that together exceed the available balance do not all
\* succeed: while only withdrawals have been requested, the initial balance
\* minus the withdrawals answered 201 stays at or above minimumBalance.
OnlyWithdrawals ==
  /\ \A t \in ledger : t.transactionType = "withdrawal"
  /\ \A p \in Procs : req[p].kind \in {"none", "withdrawal"}
  /\ last.req.kind \in {"none", "withdrawal"}
C2_NoJointOverdraw ==
  (taint = {} /\ OnlyWithdrawals) =>
    \A a \in Accounts : expected[a] >= store[a].minimumBalance

\* C3: after a deposit or withdrawal has ended, its balance write is committed
\* if and only if exactly one Transaction record of it is (stated for every
\* ending but the storage failing on the ledger insert).
C3_BalanceWithRecord ==
  (Answered({"deposit", "withdrawal"}) /\ last.message # "transaction save failed") =>
    (("from" \in last.g.applied) <=> (Cardinality(last.g.newRecs) = 1))

\* C4: a transfer commits its debit, its credit and its Transaction record
\* together or none of them: nothing of it is committed while it runs, all
\* three are once it has answered 201, none is once it has failed.
C4_TransferAtomic ==
  /\ \A p \in Procs : req[p].kind = "transfer" => g[p].applied = {}
  /\ Answered({"transfer"}) =>
       IF last.status = 201
       THEN /\ last.g.applied = AllApplied
            /\ Cardinality(last.g.newRecs) = 1
            /\ last.g.newRecs \subseteq ledger
       ELSE last.g.applied = {} /\ last.g.newRecs = {}

\* C4 witness: a transfer failed at its commit, with both writes and the insert staged
C4_Witness ==
  /\ last.req.kind = "transfer"
  /\ last.status = 500
  /\ last.g.staged = 3

\* C5: a successful transfer moves exactly the amount: the stored balance of
\* the source falls by it, that of the destination rises by it, their sum stays.
C5_SumPreserved ==
  Succeeded({"transfer"}) =>
    /\ last.g.postFrom = last.g.preFrom - last.req.amount.val
    /\ last.g.postTo = last.g.preTo + last.req.amount.val
    /\ last.g.postFrom + last.g.postTo = last.g.preFrom + last.g.preTo

\* C6: a successful deposit with no other request interleaved on its account
\* raises the stored balance by the amount and adds exactly one Transaction
\* record, of type deposit, of that account, with balanceAfter the new balance.
C6_DepositExact ==
  (Succeeded({"deposit"}) /\ ~last.g.mixed) =>
    /\ last.g.postFrom = last.g.preFrom + last.req.amount.val
    /\ \E t \in ledger :
         /\ last.g.newRecs = {t}
         /\ t.transactionType = "deposit"
         /\ t.fromAccount = last.req.fromAccountId
         /\ t.balanceAfter = last.g.postFrom

\* C7: a successful withdrawal lowers the stored balance by the amount and
\* leaves it at or above minimumBalance.
C7_WithdrawExact ==
  Succeeded({"withdrawal"}) =>
    /\ last.g.postFrom = last.g.preFrom - last.req.amount.val
    /\ last.g.postFrom >= store[last.req.fromAccountId].minimumBalance

\* C8: a transfer between accounts of different tenants, requested by an actor
\* who is not super_admin, is rejected and commits nothing.
CrossTenant(r) ==
  /\ r.kind = "transfer"
  /\ r.fromAccountId \in Accounts /\ r.toAccountId \in Accounts
  /\ store[r.fromAccountId].cooperativeBankId # store[r.toAccountId].cooperativeBankId
C8_CrossTenantRejected ==
  (last.status # 0 /\ CrossTenant(last.req) /\ Users[last.req.user].role # "super_admin") =>
    (last.status >= 400 /\ last.g.applied = {})

\* C9: a deposit, withdrawal or transfer of an actor whose tenant is not the
\* (source) account's and who is not super_admin is rejected and commits nothing.
ForeignActor(r) ==
  /\ r.fromAccountId \in Accounts
  /\ ReqBank(r.user) # store[r.fromAccountId].cooperativeBankId
  /\ Users[r.user].role # "super_admin"
C9_ForeignActorRejected ==
  (Answered({"deposit", "withdrawal", "transfer"}) /\ ForeignActor(last.req)) =>
    (last.status >= 400 /\ last.g.applied = {})

\* C10: the access check lets a super_admin run a deposit, withdrawal or
\* transfer on an active account that is not theirs.
SuperAdminOnOthers(r) ==
  /\ Users[r.user].role = "super_admin"
  /\ r.fromAccountId \in Accounts
  /\ store[r.fromAccountId].userId # r.user
  /\ store[r.fromAccountId].isActive
  /\ r.kind = "transfer" => (r.toAccountId \in Accounts /\ r.toAccountId # r.fromAccountId)
C10_SuperAdminAllowed ==
  (Answered({"deposit", "withdrawal", "transfer"}) /\ SuperAdminOnOthers(last.req)) =>
    last.status # 403

\* p answers its request in this step
Answers(p) == pc[p] # "idle" /\ pc'[p] = "idle"

ValidationMessages ==
  { "Account not found", "Access denied", "Account is deactivated",
    "Insufficient balance", "Cannot transfer to the same account",
    "From account not found", "To account not found",
    "Access denied to from account", "One or both accounts are deactivated" }

\* C11: a deposit, withdrawal or transfer that ends with a validation failure
\* (not found, not authorized, deactivated, insufficient balance, same account)
\* answers an error, has written nothing, and its last step leaves every
\* account document and the set of Transaction records as they were.
C11_ValidationFrame ==
  [][\A p \in Procs :
       ( /\ Answers(p)
         /\ req[p].kind \in {"deposit", "withdrawal", "transfer"}
         /\ last'.message \in ValidationMessages )
       => ( /\ last'.status \in {400, 403, 404}
            /\ last'.g.applied = {}
            /\ store' = store
            /\ ledger' = ledger )]_vars

\* C11 witness: a request refused for a deactivated account, after other
\* requests have changed the accounts
C11_Witness ==
  /\ last.req.kind \in {"deposit", "withdrawal", "transfer"}
  /\ last.message \in {"Account is deactivated", "One or both accounts are deactivated"}
  /\ \E a \in Accounts : ~store[a].isActive

\* the source account as the handler p has read it when it decides in the
\* step from this state
FromAsRead(p) ==
  IF req[p].kind = "transfer" /\ ~IsUnread(doc[p].from) THEN doc[p].from
  ELSE FindById(req[p].fromAccountId)
ToAsRead(p) ==
  IF ~IsUnread(doc[p].to) THEN doc[p].to ELSE FindById(req[p].toAccountId)

\* p evaluates its balance check in this step: the checks before it pass
Decides(p) ==
  \/ /\ pc[p] = "wd_find" /\ pc'[p] # "wd_find"
     /\ ~IsNull(FromAsRead(p))
     /\ ~AccessDenied(FromAsRead(p), req[p].user)
     /\ FromAsRead(p).isActive
  \/ /\ pc[p] = "tr_find" /\ pc'[p] # "tr_find"
     /\ ~IsNull(FromAsRead(p)) /\ ~IsNull(ToAsRead(p))
     /\ ~AccessDenied(FromAsRead(p), req[p].user)
     /\ FromAsRead(p).isActive /\ ToAsRead(p).isActive

\* C12: a withdrawal, and a transfer on its source account, is refused with
\* the insufficient-balance error exactly when amount > balance - minimumBalance
\* of the account as read, and the error reports that difference.
C12_InsufficientExact ==
  [][\A p \in Procs :
       Decides(p) =>
         LET available == FromAsRead(p).balance - FromAsRead(p).minimumBalance
             refused == pc'[p] = "idle" /\ last'.message = "Insufficient balance"
         IN /\ refused <=> req[p].amount.val > available
            /\ refused => last'.status = 400 /\ last'.data = <<available>>]_vars

\* C12 witness: a withdrawal or transfer refused with the available balance 1 reported
C12_Witness ==
  /\ last.req.kind \in {"withdrawal", "transfer"}
  /\ last.message = "Insufficient balance"
  /\ last.data = <<1>>

\* C13: a deactivation request on an account whose balance is not zero answers
\* an error and leaves the account's active flag and balance as they were.
C13_DeactivateRefused ==
  [][\A p \in Procs :
       ( /\ pc[p] = "de_find" /\ pc'[p] # "de_find"
         /\ req[p].fromAccountId \in Accounts
         /\ store[req[p].fromAccountId].balance # 0 )
       => ( /\ pc'[p] = "idle"
            /\ last'.status >= 400
            /\ store' = store )]_vars

\* C13 witness: the owner's deactivation refused for the remaining balance
C13_Witness ==
  /\ last.req.kind = "deactivate"
  /\ last.status = 400
  /\ last.message = "Cannot deactivate account with remaining balance"
  /\ store[last.req.fromAccountId].isActive
  /\ store[last.req.fromAccountId].balance > 0

\* C14: every inactive account has balance 0.
C14_InactiveIsEmpty ==
  \A o \in AllAccounts : ~o.isActive => o.balance = 0

\* C15: no owner has two active accounts of the same account type.
C15_OneActivePerType ==
  \A o1 \in AllAccounts, o2 \in AllAccounts :
    ( /\ o1.userId = o2.userId /\ o1.accountType = o2.accountType
      /\ o1.isActive /\ o2.isActive )
    => o1 = o2

\* C16: every account-opening request that passes the duplicate-type check is
\* answered 201 and its account has a number no other account has.
C16_OpeningSucceeds ==
  ( /\ last.req.kind = "create"
    /\ last.status # 0
    /\ last.message # "You already have an active account" )
  => ( /\ last.status = 201
       /\ \A o1 \in AllAccounts, o2 \in AllAccounts :
            o1.accountNumber = o2.accountNumber => o1 = o2 )

\* C17: no request fails because the transactionId generated for its
\* Transaction record is already taken (the requests here carry no
\* referenceNumber, so a rejected insert is a transactionId clash).
C17_NoIdClash ==
  ~( /\ last.req.referenceNumber = "none"
     /\ last.req.kind \in {"deposit", "withdrawal", "transfer"}
     /\ last.status = 400
     /\ last.message = "already exists" )

\* C18: every Transaction record is persisted with status completed, and no
\* step removes or alters a persisted record: the set of records only grows.
C18_LedgerAppendOnly ==
  /\ [](\A t \in ledger : t.status = "completed")
  /\ [][ledger \subseteq ledger']_vars

\* C18 witness: a record persisted earlier is still there after a later one was added
C18_Witness ==
  /\ Cardinality(ledger) = 2
  /\ \E t \in ledger : t.transactionId[1] < now

\* C19: every stored balance is >= 0, and so is every balance a handler has
\* computed and is about to save.
C19_BalanceNonNegative ==
  /\ \A a \in Accounts : store[a].balance >= 0
  /\ \A o \in opened : o.balance >= 0
  /\ \A p \in Procs : \A which \in {"from", "to"} :
       "balance" \in DOMAIN doc[p][which] => doc[p][which].balance >= 0

\* C19 witness: withdrawals and transfers have taken an account down to its floor
C19_Witness ==
  /\ \E a \in Accounts : store[a].balance < 5 /\ AvailableBalance(store[a]) < 2
  /\ \E t \in ledger : t.transactionType \in {"withdrawal", "transfer"}

\* C20: two transfers A->B and B->A of the same amount that ran concurrently
\* and both succeeded leave A and B at their initial balances.
C20_OppositeTransfers ==
  ( /\ Quiet
    /\ Cardinality(ledger) = 2
    /\ \E t \in ledger : t.transactionType = "transfer" /\ t.fromAccount = "A" /\ t.toAccount = "B"
    /\ \E t \in ledger : t.transactionType = "transfer" /\ t.fromAccount = "B" /\ t.toAccount = "A" )
  => (store["A"].balance = 5 /\ store["B"].balance = 5)

\* the accounts a transfer in flight has staged a write of
StagedIds(p) == { w.id : w \in sess[p].writes }

\* C21: two transfers over the same pair of accounts, in either direction,
\* write the two account records in the same order: when each has staged its
\* first write, it is of the same account.
C21_FixedWriteOrder ==
  \A p \in Procs, q \in Procs :
    ( /\ pc[p] = "tr_saveTo" /\ pc[q] = "tr_saveTo"
      /\ AcctsOf(p) = AcctsOf(q) )
    => StagedIds(p) = StagedIds(q)

\* C28: a transfer that commits writes, for its source and its destination,
\* the balance stored at the moment of the commit less or plus the amount: it
\* never commits a balance computed from a value another request has replaced.
C28_NoStaleCommit ==
  [][\A p \in Procs :
       ( /\ pc[p] = "tr_commit" /\ pc'[p] = "idle"
         /\ last'.status = 201 )
       => ( /\ store'[req[p].fromAccountId].balance
                 = store[req[p].fromAccountId].balance - req[p].amount.val
            /\ store'[req[p].toAccountId].balance
                 = store[req[p].toAccountId].balance + req[p].amount.val )]_vars

\* C29: a deposit, withdrawal or transfer that has ended is either completed,
\* answered 201 with all its writes committed, or failed, answered an error
\* with none of its writes committed.
C29_FinalOutcome ==
  Answered({"deposit", "withdrawal", "transfer"}) =>
    \/ /\ last.status = 201
       /\ last.g.applied = (IF last.req.kind = "transfer" THEN AllApplied ELSE {"from", "txn"})
    \/ /\ last.status >= 400
       /\ last.g.applied = {}

\* C30: the cooperativeBankId of every Transaction record is that of its
\* source account and, for a transfer, of its destination account.
C30_RecordTenant ==
  \A t \in ledger :
    /\ t.cooperativeBankId = store[t.fromAccount].cooperativeBankId
    /\ t.transactionType = "transfer" =>
         t.cooperativeBankId = store[t.toAccount].cooperativeBankId

\* the audit actions of the transaction core
TransactionActions == {"DEPOSIT", "WITHDRAWAL", "TRANSFER"}

\* C22: after a deposit, withdrawal or transfer request of an authenticated
\* actor has been answered, with success or with an error, exactly one audit
\* record of that operation has been handed to the audit sink.
C22_AuditHanded ==
  Answered({"deposit", "withdrawal", "transfer"}) =>
    Cardinality({ c \in auditCalls : /\ c.action \in TransactionActions
                                     /\ c.userId = last.req.user
                                     /\ c.timestamp = now }) = 1

\* the calls made, whatever the state of their write
CallsMade(S) == { AuditDocument(c) : c \in S }

\* C23: when an audit write settles, by succeeding or by throwing, nothing but
\* the audit log changes: the response already given, the accounts, the ledger
\* and the users stay as they are, so a failure is not propagated.
C23_AuditFailureDiscarded ==
  [][(auditCalls' # auditCalls /\ CallsMade(auditCalls') = CallsMade(auditCalls))
       => UNCHANGED <<store, ledger, opened, password, userActive, registered,
                      last, pc, req>>]_vars

\* a password change answered 200 whose audit write has failed
C23_Witness ==
  /\ last.req.kind = "password"
  /\ last.status = 200
  /\ password[last.req.user] = last.req.newPassword
  /\ \E c \in auditCalls : c.create = "failed" /\ c.timestamp = now
  /\ auditLog = {}

\* C24: a user who is not super_admin reads the details, the balance or the
\* transaction history of an account only if the account belongs to the
\* user's own cooperative bank.
C24_ReadsOwnTenant ==
  ( /\ last.req.kind \in {"details", "balance", "history"}
    /\ last.status = 200
    /\ Users[last.req.user].role # "super_admin" )
  => store[last.req.fromAccountId].cooperativeBankId = ReqBank(last.req.user)

\* no two users share an email, a phone, an Aadhar number or a PAN number
UniqueIdentities(S) == \A u \in S, v \in S : u # v => ~SameIdentity(u, v)

TenantFields == {"cooperativeBankId", "userId", "accountNumber"}

\* C26: no step changes the cooperativeBankId, the owner or the account number
\* of an account, and the update operation changes nothing but nomineeDetails.
C26_TenantImmutable ==
  [][/\ \A a \in Accounts, f \in TenantFields : store'[a][f] = store[a][f]
     /\ \A p \in Procs :
          (pc[p] = "up_save" /\ pc'[p] # "up_save")
          => \A a \in Accounts :
               \A f \in DOMAIN store[a] \ {"nomineeDetails"} :
                 store'[a][f] = store[a][f]]_vars

\* an update whose body named the tenant fields too has set the nominee only
C26_Witness ==
  /\ last.req.kind = "update"
  /\ last.status = 200
  /\ "cooperativeBankId" \in DOMAIN last.req.body
  /\ store[last.req.fromAccountId].nomineeDetails = last.req.body.nomineeDetails
  /\ store[last.req.fromAccountId].cooperativeBankId # last.req.body.cooperativeBankId

\* C27: the balance of an account that is inactive when a write is applied
\* does not change.
C27_InactiveBalanceFrozen ==
  [][\A a \in Accounts : ~store[a].isActive => store'[a].balance = store[a].balance]_vars

====
